---- MODULE Spec2Model ----
(***************************************************************************)
(* A model of the Copy-Pasta bot (src/bot.py): the per-user key-value      *)
(* store (DatabaseManager over a SqliteDict), the command dispatcher       *)
(* (CommandHandler) with its cooldown and permission gates, the blacklist  *)
(* gate of on_message, and the timestamped backups.                        *)
(*                                                                         *)
(* Scheduling.  discord.py runs every coroutine on one event loop, so a    *)
(* handler runs without interruption by another handler up to its next     *)
(* await.  The one await that suspends a handler is _handle_steal's        *)
(* asyncio.to_thread: steal.steal runs in a worker thread on the same      *)
(* SqliteDict, truly concurrently with whatever the event loop does.       *)
(* Every SqliteDict access (get, set, keys) is one atomic step; a method   *)
(* that reads and later writes is therefore split at its accesses, the     *)
(* variable loop holding the event loop's place between them.              *)
(*                                                                         *)
(* The program state is gathered in the record St; each piece of code is   *)
(* an operator from a state record to the state record it leaves.          *)
(***************************************************************************)
EXTENDS Integers, Sequences, FiniteSets, TLC

\* ---------------------------------------------------------------- inputs

\* User identifiers the transport delivers messages from.
Users == {1, 2, 3}
\* do_not_push.ADMINS: the admin identifiers, fixed at start-up.
ADMINS == {1, 2}
\* Keys and (non-empty) values users store.
Keys == {"a", "b"}
Values == {"v", "w"}

\* constants.COMMAND_COOLDOWN, in seconds.
COMMAND_COOLDOWN == 2
\* DatabaseManager.backup_interval: one day in seconds.
backup_interval == 86400

\* The clock (whole seconds since construction) takes the values
\* d * backup_interval + s with d <= MaxDays and s <= MaxSec.
MaxSec == 2
MaxDays == 1
\* Worker threads of asyncio.to_thread that may run at once.
MaxThreads == 2

Threads == 1..MaxThreads

\* constants.*: the reply texts.
KEY_EXISTS_ADD == "KEY_EXISTS_ADD"
SUCCESSFUL == "SUCCESSFUL"
KEY_NOT_FOUND == "KEY_NOT_FOUND"

VARIABLES
    now,                \* datetime.now(), in whole seconds
    db,                 \* DatabaseManager.db: user -> (key -> value)
    blacklist,          \* constants.BLACKLIST, a list
    command_cooldowns,  \* CommandHandler.command_cooldowns: <<command, user>> -> time
    last_backup,        \* DatabaseManager.last_backup
    files,              \* the backups directory: path (a timestamp) -> contents
    loop,               \* the call the event loop is in the middle of
    threads,            \* the worker threads running steal.steal
    prev,               \* the direct store call or thread write completed before ret
    ret                 \* the call, message or thread write completed last, with its outcome

vars == <<now, db, blacklist, command_cooldowns, last_backup, files, loop, threads, prev, ret>>

\* The current state as one record.
St ==
    [now |-> now, db |-> db, blacklist |-> blacklist,
     command_cooldowns |-> command_cooldowns, last_backup |-> last_backup,
     files |-> files, loop |-> loop, threads |-> threads, prev |-> prev, ret |-> ret]

\* The next state is the record s.
Becomes(s) ==
    /\ now' = s.now
    /\ db' = s.db
    /\ blacklist' = s.blacklist
    /\ command_cooldowns' = s.command_cooldowns
    /\ last_backup' = s.last_backup
    /\ files' = s.files
    /\ loop' = s.loop
    /\ threads' = s.threads
    /\ prev' = s.prev
    /\ ret' = s.ret

\* ------------------------------------------------------------ dictionaries

\* {}
EmptyDict == <<>>
\* d.get(k, {}) of a dict of dicts
Get(d, k) == IF k \in DOMAIN d THEN d[k] ELSE EmptyDict
\* d[k] = v
Put(d, k, v) == [x \in (DOMAIN d) \cup {k} |-> IF x = k THEN v ELSE d[x]]
\* del d[k]
Del(d, k) == [x \in (DOMAIN d) \ {k} |-> d[x]]
\* The (user, key, value) triples a store or a snapshot holds.
Triples(d) == UNION {{<<u, k, d[u][k]>> : k \in DOMAIN d[u]} : u \in DOMAIN d}

\* ----------------------------------------------------------------- results

\* CommandResult(status, message); a bool or None a method returns is a status too.
Result(status, message) == [status |-> status, message |-> message]
\* An exception leaving the method.
Raised(exc) == [status |-> "raise", message |-> exc]

Idle == [pc |-> "idle"]
Free == [pc |-> "free"]
NoCall == [op |-> "none"]
NoReply == "(no reply)"
\* A method of DatabaseManager called directly, outside a command.
Direct == [cmd |-> "call"]

\* --------------------------------------------------- returning to the caller

\* CommandResponse statuses send_response answers with the result's message.
ErrorStatuses == {"FAILURE", "NO_PERMISSION", "INVALID_ARGS"}

\* send_response with COOLDOWN among the statuses it answers.
send_response_cooldown(result) ==
    IF result.status = "SUCCESS" /\ result.message # ""
    THEN result.message
    ELSE IF result.status \in ErrorStatuses \cup {"COOLDOWN"}
         THEN (IF result.message # "" THEN result.message ELSE "An error occurred.")
         ELSE NoReply

\* DiscordBot.send_response: the text replied for a CommandResult, if any.  Every
\* message of the model is a non-empty string, so "response.message or ..." is
\* the message.
send_response(result) ==
    IF result.status = "SUCCESS" /\ result.message # ""
    THEN result.message
    ELSE IF result.status \in ErrorStatuses
         THEN (IF result.message # "" THEN result.message ELSE "An error occurred.")
         ELSE NoReply

\* What the handler of command cmd makes of the outcome raw of the store method
\* it called: the code after the call in _handle_add, _handle_delete,
\* _handle_steal and _handle_backup, and handle_command's except clause.
HandlerResult(cmd, raw) ==
    CASE cmd \in {"add", "add_o"} ->
            IF raw.status = "raise" THEN Result("FAILURE", "Failed to add text") ELSE raw
      [] cmd = "delete" ->
            IF raw.status = "True" THEN Result("SUCCESS", SUCCESSFUL)
            ELSE Result("FAILURE", KEY_NOT_FOUND)
      [] cmd = "steal" ->
            IF raw.status = "raise" THEN Result("FAILURE", "Failed to steal the key.")
            ELSE IF raw.status = "True" THEN Result("SUCCESS", SUCCESSFUL)
            ELSE Result("FAILURE", KEY_NOT_FOUND)
      [] cmd = "backup" ->
            IF raw.status = "raise" THEN Result("FAILURE", "Failed to create a backup.")
            ELSE IF raw.status = "True"
                 THEN Result("SUCCESS", "Database backup created successfully.")
                 ELSE Result("FAILURE", "Database backup failed.")
      [] cmd \in {"rename", "rename_o"} ->
            CASE raw.status = "raise" ->
                    Result("FAILURE", "An error occurred: " \o raw.message)
              [] raw.status = "0" -> Result("SUCCESS", SUCCESSFUL)
              [] raw.status = "-1" -> Result("FAILURE", "EMPTY_LIST")
              [] raw.status = "-2" -> Result("FAILURE", KEY_NOT_FOUND)
              [] raw.status = "-3" ->
                    Result("FAILURE", IF cmd = "rename" THEN "KEY_EXISTS_RENAME"
                                      ELSE "UNSUCCESSFUL")
              [] OTHER -> Result("FAILURE", "UNSUCCESSFUL")
      [] cmd = "delete_me" ->
            IF raw.status = "raise" THEN Result("FAILURE", "An error occurred: " \o raw.message)
            ELSE IF raw.status = "True" THEN Result("SUCCESS", SUCCESSFUL)
            ELSE Result("FAILURE", "EMPTY_LIST")
      [] OTHER ->
            IF raw.status = "raise" THEN Result("FAILURE", "An error occurred: " \o raw.message)
            ELSE raw

\* The event loop is free again; rec is the call or message that completed.  The
\* history of direct calls keeps the one before as well.
Done(s, rec) ==
    [s EXCEPT !.loop = Idle, !.prev = IF rec.ctx.cmd = "call" THEN s.ret ELSE @, !.ret = rec]

\* _periodic_backup after "await self.create_backup()": an exception leaves
\* the coroutine, any return value is dropped and last_backup is set.
periodic_backup_end(s, ctx, raw) ==
    IF raw.status = "raise" THEN s ELSE [s EXCEPT !.last_backup = ctx.current_time]

\* The store method call, started for ctx, ends with outcome raw: a direct call
\* returns raw; _periodic_backup goes on after its await; a command's handler
\* builds its CommandResult, and handle_bot_command sends the reply.
Finish(s, ctx, call, raw) ==
    CASE ctx.cmd = "call" ->
            Done(s, [ctx |-> ctx, call |-> call, raw |-> raw, result |-> raw,
                     reply |-> NoReply])
      [] ctx.cmd = "periodic" ->
            Done(periodic_backup_end(s, ctx, raw),
                 [ctx |-> ctx, call |-> call, raw |-> raw, result |-> raw,
                  reply |-> NoReply])
      [] OTHER ->
            Done(s, [ctx |-> ctx, call |-> call, raw |-> raw,
                     result |-> HandlerResult(ctx.cmd, raw),
                     reply |-> send_response(HandlerResult(ctx.cmd, raw))])

\* ------------------------------------------------------------ the user store

\* store_text without its "key in user_db and not overwrite" check.
store_text_read_unchecked(s, ctx, user, key, value, overwrite, fail) ==
    LET call == [op |-> "store_text", user |-> user, key |-> key, value |-> value,
                 overwrite |-> overwrite]
    IN  IF fail
        THEN Finish(s, ctx, call, Raised("DatabaseError"))
        ELSE [s EXCEPT !.loop = [pc |-> "store_text", ctx |-> ctx, call |-> call,
                                 user_db |-> Put(Get(s.db, user), key, value)]]

\* DatabaseManager.store_text up to its return or its write: the read of the
\* user's record, the key-exists check and the update of the local copy.
store_text_read(s, ctx, user, key, value, overwrite, fail) ==
    LET call == [op |-> "store_text", user |-> user, key |-> key, value |-> value,
                 overwrite |-> overwrite]
        user_db == Get(s.db, user)
    IN  IF fail
        THEN Finish(s, ctx, call, Raised("DatabaseError"))
        ELSE IF key \in DOMAIN user_db /\ ~overwrite
             THEN Finish(s, ctx, call, Result("FAILURE", KEY_EXISTS_ADD))
             ELSE [s EXCEPT !.loop = [pc |-> "store_text", ctx |-> ctx, call |-> call,
                                      user_db |-> Put(user_db, key, value)]]

\* store_text writing a record of the new key alone, not the record it read.
store_text_write_alone(s, fail) ==
    LET l == s.loop
    IN  IF fail
        THEN Finish(s, l.ctx, l.call, Raised("DatabaseError"))
        ELSE Finish([s EXCEPT !.db = Put(s.db, l.call.user,
                                         Put(EmptyDict, l.call.key, l.call.value))],
                    l.ctx, l.call, Result("SUCCESS", SUCCESSFUL))

\* DatabaseManager.store_text from "self.db[user] = user_db" on.
store_text_write(s, fail) ==
    LET l == s.loop
    IN  IF fail
        THEN Finish(s, l.ctx, l.call, Raised("DatabaseError"))
        ELSE Finish([s EXCEPT !.db = Put(s.db, l.call.user, l.user_db)],
                    l.ctx, l.call, Result("SUCCESS", SUCCESSFUL))

\* delete_key without its "key in user_db" check.
delete_key_read_unchecked(s, ctx, user, key, fail) ==
    LET call == [op |-> "delete_key", user |-> user, key |-> key]
    IN  IF fail
        THEN Finish(s, ctx, call, Result("False", "storage error"))
        ELSE [s EXCEPT !.loop = [pc |-> "delete_key", ctx |-> ctx, call |-> call,
                                 user_db |-> Del(Get(s.db, user), key)]]

\* DatabaseManager.delete_key up to its return or its write.
delete_key_read(s, ctx, user, key, fail) ==
    LET call == [op |-> "delete_key", user |-> user, key |-> key]
        user_db == Get(s.db, user)
    IN  IF fail
        THEN Finish(s, ctx, call, Result("False", "storage error"))
        ELSE IF key \in DOMAIN user_db
             THEN [s EXCEPT !.loop = [pc |-> "delete_key", ctx |-> ctx, call |-> call,
                                      user_db |-> Del(user_db, key)]]
             ELSE Finish(s, ctx, call, Result("False", "absent"))

\* DatabaseManager.delete_key from "self.db[user] = user_db" on.
delete_key_write(s, fail) ==
    LET l == s.loop
    IN  IF fail
        THEN Finish(s, l.ctx, l.call, Result("False", "storage error"))
        ELSE Finish([s EXCEPT !.db = Put(s.db, l.call.user, l.user_db)],
                    l.ctx, l.call, Result("True", "removed"))

\* DatabaseManager.retrieve_text: one read; None when absent or on an exception.
retrieve_text(s, user, key, fail) ==
    IF fail THEN Result("None", "storage error")
    ELSE IF key \in DOMAIN Get(s.db, user)
         THEN Result("value", Get(s.db, user)[key])
         ELSE Result("None", "absent")

\* The keys of a record as one text, in the order of Keys.
KeyList(rec) ==
    IF DOMAIN rec = {} THEN ""
    ELSE IF DOMAIN rec = {"a"} THEN "a"
    ELSE IF DOMAIN rec = {"b"} THEN "b"
    ELSE "a b"

\* DatabaseManager.get_user_keys: one read; the empty list when the user has no
\* keys or on an exception.
get_user_keys(s, user, fail) ==
    IF fail THEN Result("[]", "storage error")
    ELSE IF DOMAIN Get(s.db, user) = {}
         THEN Result("[]", "no keys")
         ELSE Result("list", KeyList(Get(s.db, user)))

\* ------------------------------------------------------- steal, in its thread

\* "new_key or key": the key the stolen value is stored under.
None == "None"
TargetKey(call) == IF call.new_key = None THEN call.key ELSE call.new_key

\* asyncio.to_thread(steal.steal, self.db.db, user.id, key_to_steal,
\* steal_from_id, new_key): thread t starts running steal.steal for ctx.
steal_start(s, t, ctx, user, key, from, new_key) ==
    [s EXCEPT !.threads[t] =
        [pc |-> "source", ctx |-> ctx,
         call |-> [op |-> "steal", user |-> user, key |-> key, from |-> from,
                   new_key |-> new_key]]]

\* The thread ends with outcome raw, for the awaiting coroutine to pick up.
thread_done(s, t, raw) ==
    [s EXCEPT !.threads[t] = [pc |-> "done", ctx |-> @.ctx, call |-> @.call, raw |-> raw]]

\* steal.steal: read the source user's record; False when it lacks the key.
steal_read_source(s, t, fail) ==
    LET th == s.threads[t]
        source == Get(s.db, th.call.from)
    IN  IF fail THEN thread_done(s, t, Raised("Exception"))
        ELSE IF th.call.key \notin DOMAIN source
             THEN thread_done(s, t, Result("False", "absent"))
             ELSE [s EXCEPT !.threads[t] = [pc |-> "own", ctx |-> th.ctx, call |-> th.call,
                                            value |-> source[th.call.key]]]

\* steal.steal: read the acting user's record and set the key in the copy.
steal_read_own(s, t, fail) ==
    LET th == s.threads[t]
    IN  IF fail THEN thread_done(s, t, Raised("Exception"))
        ELSE [s EXCEPT !.threads[t] =
                [pc |-> "write", ctx |-> th.ctx, call |-> th.call,
                 user_db |-> Put(Get(s.db, th.call.user), TargetKey(th.call), th.value)]]

\* steal.steal: write the acting user's record back and return True.  The
\* write is a store write of its own in the history.
steal_write(s, t, fail) ==
    LET th == s.threads[t]
    IN  IF fail THEN thread_done(s, t, Raised("Exception"))
        ELSE [thread_done(s, t, Result("True", "stolen")) EXCEPT
                !.db = Put(s.db, th.call.user, th.user_db),
                !.prev = IF th.ctx.cmd = "call" THEN s.ret ELSE @,
                !.ret = [ctx |-> [cmd |-> "thread"], call |-> th.call,
                         raw |-> Result("True", "stolen"),
                         result |-> Result("True", "stolen"), reply |-> NoReply]]

\* One step of thread t.
steal_step(s, t, fail) ==
    CASE s.threads[t].pc = "source" -> steal_read_source(s, t, fail)
      [] s.threads[t].pc = "own" -> steal_read_own(s, t, fail)
      [] s.threads[t].pc = "write" -> steal_write(s, t, fail)

\* _handle_steal after its await: the thread's outcome becomes the result.
steal_return(s, t) ==
    LET th == s.threads[t]
    IN  Finish([s EXCEPT !.threads[t] = Free], th.ctx, th.call, th.raw)

\* ---------------------------------------------------------------- backups

\* DatabaseManager.create_backup's except clause: the file at the path is
\* unlinked if it exists, and the method returns False.
create_backup_fail(s, ctx, call) ==
    Finish([s EXCEPT !.files = Del(s.files, call.path)], ctx, call,
           Result("False", "backup failed"))

\* DatabaseManager.create_backup up to its first copy: mkdir (outside the try),
\* the timestamp and the path made of it, the SqliteDict opened on the path
\* (which creates the file or opens the one already there) and the list of keys
\* read from the store.  fault "mkdir" raises out of the method; a fault in the
\* try runs the except clause.  The call records the store and the backups
\* directory as they are when it starts.
create_backup_open(s, ctx, fault) ==
    LET call == [op |-> "create_backup", path |-> s.now, store |-> s.db,
                 before |-> s.files]
    IN  IF fault = "mkdir"
        THEN Finish(s, ctx, call, Raised("OSError"))
        ELSE IF fault = "io"
             THEN create_backup_fail(s, ctx, call)
             ELSE [s EXCEPT !.files = Put(s.files, call.path, Get(s.files, call.path)),
                            !.loop = [pc |-> "create_backup", ctx |-> ctx, call |-> call,
                                      keys |-> DOMAIN s.db]]

\* One round of "for key in self.db.keys(): backup_db[key] = self.db[key]" for
\* the key the iteration is at, or, the keys exhausted, backup_db.close() and
\* "return True".
create_backup_copy(s, key, fault) ==
    LET l == s.loop
        path == l.call.path
    IN  IF fault # "none" \/ (l.keys # {} /\ key \notin DOMAIN s.db)
        THEN create_backup_fail(s, l.ctx, l.call)
        ELSE IF l.keys = {}
             THEN Finish(s, l.ctx, l.call, Result("True", "backup created"))
             ELSE [s EXCEPT !.files = Put(s.files, path, Put(Get(s.files, path), key, s.db[key])),
                            !.loop = [l EXCEPT !.keys = @ \ {key}]]

\* DatabaseManager._periodic_backup up to its await.
periodic_backup(s, fault) ==
    LET ctx == [cmd |-> "periodic", current_time |-> s.now, last_backup |-> s.last_backup]
    IN  IF ctx.current_time - s.last_backup >= backup_interval
        THEN create_backup_open(s, ctx, fault)
        ELSE Done(s, [ctx |-> ctx, call |-> NoCall, raw |-> Result("None", "not due"),
                      result |-> Result("None", "not due"), reply |-> NoReply])

\* -------------------------------------------------------------- permissions

\* list membership
InList(x, list) == \E i \in 1..Len(list) : list[i] = x
\* list.remove(x): the list without its first x
RECURSIVE Remove(_, _)
Remove(list, x) ==
    IF list = <<>> THEN <<>>
    ELSE IF Head(list) = x THEN Tail(list)
         ELSE <<Head(list)>> \o Remove(Tail(list), x)

\* Permission.is_admin
is_admin(user_id) == user_id \in ADMINS
\* Permission.is_blacklisted
is_blacklisted(s, user_id) == InList(user_id, s.blacklist)

\* A user mention "<@id>", as Discord writes it in the message text.
Mention == <<"<@1>", "<@2>", "<@3>">>
\* A token that starts with "<@" and ends with ">" without an integer between.
BadMention == "<@x>"
\* arg.startswith('<@') and arg.endswith('>')
IsMention(arg) == arg = BadMention \/ \E u \in Users : Mention[u] = arg
\* int(arg[2:-1]) does not raise ValueError
IsIntMention(arg) == \E u \in Users : Mention[u] = arg
\* int(arg[2:-1])
MentionId(arg) == CHOOSE u \in Users : Mention[u] = arg

\* _handle_blacklist_add without its "in do_not_push.ADMINS" check.
handle_blacklist_add_any(s, user, args) ==
    IF Len(args) # 2 \/ ~IsMention(args[2])
    THEN [s |-> s, result |-> Result("INVALID_ARGS", "Invalid user mention.")]
    ELSE IF ~IsIntMention(args[2])
         THEN [s |-> s, result |-> Result("FAILURE", "Failed to add user to blacklist.")]
         ELSE IF InList(MentionId(args[2]), s.blacklist)
              THEN [s |-> s, result |-> Result("FAILURE", "User is already blacklisted.")]
              ELSE [s |-> [s EXCEPT !.blacklist = Append(@, MentionId(args[2]))],
                    result |-> Result("SUCCESS", "User " \o args[2] \o
                                                 " has been blacklisted.")]

\* The body of _handle_blacklist_add.
handle_blacklist_add(s, user, args) ==
    IF Len(args) # 2 \/ ~IsMention(args[2])
    THEN [s |-> s, result |-> Result("INVALID_ARGS", "Invalid user mention.")]
    ELSE IF ~IsIntMention(args[2])
         THEN [s |-> s, result |-> Result("FAILURE", "Failed to add user to blacklist.")]
         ELSE LET user_id_to_blacklist == MentionId(args[2])
              IN  IF user_id_to_blacklist \in ADMINS
                  THEN [s |-> s,
                        result |-> Result("FAILURE", "You cannot blacklist another admin.")]
                  ELSE IF InList(user_id_to_blacklist, s.blacklist)
                       THEN [s |-> s,
                             result |-> Result("FAILURE", "User is already blacklisted.")]
                       ELSE [s |-> [s EXCEPT !.blacklist = Append(@, user_id_to_blacklist)],
                             result |-> Result("SUCCESS", "User " \o args[2] \o
                                                          " has been blacklisted.")]

\* The body of _handle_blacklist_remove.
handle_blacklist_remove(s, user, args) ==
    IF Len(args) # 2 \/ ~IsMention(args[2])
    THEN [s |-> s, result |-> Result("INVALID_ARGS", "Invalid user mention.")]
    ELSE IF ~IsIntMention(args[2])
         THEN [s |-> s, result |-> Result("FAILURE", "Failed to remove user from blacklist.")]
         ELSE LET user_id_to_remove == MentionId(args[2])
              IN  IF ~InList(user_id_to_remove, s.blacklist)
                  THEN [s |-> s, result |-> Result("FAILURE", "User is not blacklisted.")]
                  ELSE [s |-> [s EXCEPT !.blacklist = Remove(@, user_id_to_remove)],
                        result |-> Result("SUCCESS", "User " \o args[2] \o
                                                     " has been removed from the blacklist.")]

\* requires_admin letting every user through.
requires_admin_open(user) == TRUE

\* The wrapper of Permission.requires_admin: whether the wrapped handler runs.
requires_admin(user) == is_admin(user)
NoPermission == Result("NO_PERMISSION", "You don't have permission to use this command.")

\* ----------------------------------------------------------------- cooldown

\* _check_cooldown without line 247: the time of the invocation is not
\* recorded by the check.
check_cooldown_unrecorded(s, user_id, command) ==
    IF <<command, user_id>> \in DOMAIN s.command_cooldowns
       /\ s.now - s.command_cooldowns[<<command, user_id>>] < COMMAND_COOLDOWN
    THEN [ok |-> FALSE, s |-> s]
    ELSE [ok |-> TRUE, s |-> s]

\* _check_cooldown with "<=" for its "<".
check_cooldown_late(s, user_id, command) ==
    IF <<command, user_id>> \in DOMAIN s.command_cooldowns
       /\ s.now - s.command_cooldowns[<<command, user_id>>] <= COMMAND_COOLDOWN
    THEN [ok |-> FALSE, s |-> s]
    ELSE [ok |-> TRUE,
          s |-> [s EXCEPT !.command_cooldowns = Put(@, <<command, user_id>>, s.now)]]

\* CommandHandler._check_cooldown: whether the command may run, and the
\* cooldown table it leaves.
check_cooldown(s, user_id, command) ==
    LET current_time == s.now
        entry == <<command, user_id>>
    IN  IF entry \in DOMAIN s.command_cooldowns
           /\ current_time - s.command_cooldowns[entry] < COMMAND_COOLDOWN
        THEN [ok |-> FALSE, s |-> s]
        ELSE [ok |-> TRUE,
              s |-> [s EXCEPT !.command_cooldowns = Put(@, entry, current_time)]]

\* ----------------------------------------------------------------- commands

\* The names CommandHandler.setup_commands registers.
Commands ==
    {"add", "add_o", "saved", "delete", "delete_me", "rename", "rename_o", "help",
     "steal", "blacklist_add", "blacklist_remove", "backup", "clap", "zalgo",
     "forbesify", "copypasta", "owo", "stretch", "mock", "deepfry"}

\* ''.join(args): the words with nothing between them.
RECURSIVE JoinUnspaced(_)
JoinUnspaced(args) == IF Len(args) = 1 THEN args[1] ELSE args[1] \o JoinUnspaced(Tail(args))

\* ' '.join(args)
RECURSIVE Join(_)
Join(args) == IF Len(args) = 1 THEN args[1] ELSE args[1] \o " " \o Join(Tail(args))

\* A message that completes within the step it arrives in.
Answer(s, ctx, result) ==
    Done(s, [ctx |-> ctx, call |-> NoCall, raw |-> result, result |-> result,
             reply |-> send_response(result)])

\* _handle_add without its "if not original_message" check.
handle_add_unchecked(s, ctx, user, args, reply, overwrite, fault) ==
    IF Len(args) = 1 \/ (Len(args) = 2 /\ reply = None)
    THEN Answer(s, ctx, Result("INVALID_ARGS", "WRONG_ARGS_ADD"))
    ELSE IF Len(args) = 2
         THEN store_text_read(s, ctx, user, args[2], reply, overwrite, fault # "none")
         ELSE store_text_read(s, ctx, user, args[2], Join(SubSeq(args, 3, Len(args))),
                              overwrite, fault # "none")

\* CommandHandler._handle_add.  reply is None or the text of the message replied
\* to, stripped, with its attachments' text appended.
handle_add(s, ctx, user, args, reply, overwrite, fault) ==
    IF Len(args) = 1 \/ (Len(args) = 2 /\ reply = None)
    THEN Answer(s, ctx, Result("INVALID_ARGS", "WRONG_ARGS_ADD"))
    ELSE IF Len(args) = 2
         THEN IF reply = ""
              THEN Answer(s, ctx, Result("FAILURE", "EMPTY_MESSAGE"))
              ELSE store_text_read(s, ctx, user, args[2], reply, overwrite, fault # "none")
         ELSE store_text_read(s, ctx, user, args[2], Join(SubSeq(args, 3, Len(args))),
                              overwrite, fault # "none")

\* CommandHandler._handle_delete.
handle_delete(s, ctx, user, args, fault) ==
    IF Len(args) # 2
    THEN Answer(s, ctx, Result("INVALID_ARGS", "WRONG_ARGS_DEL"))
    ELSE delete_key_read(s, ctx, user, args[2], fault # "none")

\* _handle_steal with user.id and steal_from_id in each other's place in the
\* call of steal.steal.
handle_steal_swapped(s, t, ctx, user, args) ==
    IF Len(args) \notin {3, 4}
    THEN Answer(s, ctx, Result("INVALID_ARGS", "WRONG_ARGS"))
    ELSE IF ~IsMention(args[2])
         THEN Answer(s, ctx, Result("INVALID_ARGS", "WRONG_USER_ID"))
         ELSE IF ~IsIntMention(args[2])
              THEN Answer(s, ctx, Result("FAILURE", "Failed to steal the key."))
              ELSE steal_start(s, t, ctx, MentionId(args[2]), args[3], user,
                               IF Len(args) = 4 THEN args[4] ELSE None)

\* CommandHandler._handle_steal up to its await: thread t is the worker that
\* to_thread hands steal.steal to.
handle_steal(s, t, ctx, user, args) ==
    IF Len(args) \notin {3, 4}
    THEN Answer(s, ctx, Result("INVALID_ARGS", "WRONG_ARGS"))
    ELSE IF ~IsMention(args[2])
         THEN Answer(s, ctx, Result("INVALID_ARGS", "WRONG_USER_ID"))
         ELSE IF ~IsIntMention(args[2])
              THEN Answer(s, ctx, Result("FAILURE", "Failed to steal the key."))
              ELSE steal_start(s, t, ctx, user, args[3], MentionId(args[2]),
                               IF Len(args) = 4 THEN args[4] ELSE None)

\* The text of the exception a failing storage access raises.
StorageErrorText == "disk I/O error"

\* rename_key.rename_key(db, user, old, new, overwrite): 0 when renamed, -1 when
\* the user has no keys, -2 when the old key is missing, -3 when the new key
\* exists and is not to be overwritten; the storage failing, it raises.
rename_key(s, ctx, user, old, new, overwrite, fault) ==
    LET call == [op |-> "rename_key", user |-> user, key |-> old, new_key |-> new]
        rec == Get(s.db, user)
    IN  IF fault # "none" THEN Finish(s, ctx, call, Raised(StorageErrorText))
        ELSE IF DOMAIN rec = {} THEN Finish(s, ctx, call, Result("-1", ""))
        ELSE IF old \notin DOMAIN rec THEN Finish(s, ctx, call, Result("-2", ""))
        ELSE IF new \in DOMAIN rec /\ ~overwrite THEN Finish(s, ctx, call, Result("-3", ""))
        ELSE Finish([s EXCEPT !.db = Put(s.db, user, Put(Del(rec, old), new, rec[old]))],
                    ctx, call, Result("0", ""))

\* CommandHandler._handle_rename.
handle_rename(s, ctx, user, args, overwrite, fault) ==
    IF Len(args) # 3
    THEN Answer(s, ctx, Result("INVALID_ARGS", "WRONG_ARGS_DEL"))
    ELSE rename_key(s, ctx, user, args[2], args[3], overwrite, fault)

\* CommandHandler._handle_delete_me: delete_me.delete_me(db, user) removes the
\* user's record and says whether there was one; the storage failing, it
\* raises, and so does the handler.
handle_delete_me(s, ctx, user, fault) ==
    LET call == [op |-> "delete_me", user |-> user]
    IN  IF fault # "none" THEN Finish(s, ctx, call, Raised(StorageErrorText))
        ELSE IF user \in DOMAIN s.db
             THEN Finish([s EXCEPT !.db = Del(s.db, user)], ctx, call, Result("True", ""))
             ELSE Finish(s, ctx, call, Result("False", ""))

\* The handler registered for the command, run for the message of ctx.
run_handler(s, t, ctx, user, args, reply, fault) ==
    LET command == args[1]
    IN  CASE command = "add" -> handle_add(s, ctx, user, args, reply, FALSE, fault)
          [] command = "add_o" -> handle_add(s, ctx, user, args, reply, TRUE, fault)
          [] command = "delete" -> handle_delete(s, ctx, user, args, fault)
          [] command = "delete_me" -> handle_delete_me(s, ctx, user, fault)
          [] command = "rename" -> handle_rename(s, ctx, user, args, FALSE, fault)
          [] command = "rename_o" -> handle_rename(s, ctx, user, args, TRUE, fault)
          [] command = "steal" -> handle_steal(s, t, ctx, user, args)
          [] command = "help" -> Answer(s, ctx, Result("SUCCESS", "HELP_TEXT"))
          [] command = "blacklist_add" ->
                IF requires_admin(user)
                THEN Answer(handle_blacklist_add(s, user, args).s, ctx,
                            handle_blacklist_add(s, user, args).result)
                ELSE Answer(s, ctx, NoPermission)
          [] command = "blacklist_remove" ->
                IF requires_admin(user)
                THEN Answer(handle_blacklist_remove(s, user, args).s, ctx,
                            handle_blacklist_remove(s, user, args).result)
                ELSE Answer(s, ctx, NoPermission)
          [] command = "backup" ->
                IF requires_admin(user)
                THEN create_backup_open(s, ctx, fault)
                ELSE Answer(s, ctx, NoPermission)

\* handle_command with the cooldown gate ahead of the lookup of the command.
handle_command_gate_first(s, t, user, args, reply, fault) ==
    LET ctx == [cmd |-> IF args = <<>> THEN "" ELSE args[1], author |-> user,
                args |-> args, at |-> s.now]
    IN  IF args = <<>>
        THEN Done(s, [ctx |-> ctx, call |-> NoCall, raw |-> Result("None", ""),
                      result |-> Result("None", ""), reply |-> NoReply])
        ELSE IF ~check_cooldown(s, user, args[1]).ok
             THEN Answer(s, ctx,
                         Result("COOLDOWN", "Command " \o args[1] \o
                                            " is on cooldown. Please wait."))
             ELSE IF args[1] \in Commands
                  THEN run_handler(check_cooldown(s, user, args[1]).s, t, ctx, user, args,
                                   reply, fault)
                  ELSE Answer(check_cooldown(s, user, args[1]).s, ctx,
                              Result("FAILURE", "Unknown command."))

\* CommandHandler.handle_command, called by handle_bot_command.  args is the
\* text without its ";;", split at white space; the context of the invocation
\* keeps the time it arrived at.
handle_command(s, t, user, args, reply, fault) ==
    LET ctx == [cmd |-> IF args = <<>> THEN "" ELSE args[1], author |-> user,
                args |-> args, at |-> s.now]
    IN  IF args = <<>>
        THEN Done(s, [ctx |-> ctx, call |-> NoCall, raw |-> Result("None", ""),
                      result |-> Result("None", ""), reply |-> NoReply])
        ELSE IF args[1] \in Commands
             THEN IF ~check_cooldown(s, user, args[1]).ok
                  THEN Answer(s, ctx,
                              Result("COOLDOWN", "Command " \o args[1] \o
                                                 " is on cooldown. Please wait."))
                  ELSE run_handler(check_cooldown(s, user, args[1]).s, t, ctx, user, args,
                                   reply, fault)
             ELSE Answer(s, ctx, Result("FAILURE", "Unknown command."))

\* handle_replacement without its "if replaced_text" check: what
\* retrieve_text returned is replied, whatever it is.
handle_replacement_unchecked(s, user, key, fault) ==
    LET replaced_text == retrieve_text(s, user, key, fault # "none")
    IN  Done(s, [ctx |-> [cmd |-> "replace", author |-> user, args |-> <<key>>],
                 call |-> [op |-> "retrieve_text", user |-> user, key |-> key],
                 raw |-> replaced_text, result |-> replaced_text,
                 reply |-> IF replaced_text.status = "value"
                           THEN replaced_text.message ELSE "None"])

\* DiscordBot.handle_replacement: the stored text is the reply, if there is one.
handle_replacement(s, user, key, fault) ==
    LET replaced_text == retrieve_text(s, user, key, fault # "none")
    IN  Done(s, [ctx |-> [cmd |-> "replace", author |-> user, args |-> <<key>>],
                 call |-> [op |-> "retrieve_text", user |-> user, key |-> key],
                 raw |-> replaced_text, result |-> replaced_text,
                 reply |-> IF replaced_text.status = "value" /\ replaced_text.message # ""
                           THEN replaced_text.message ELSE NoReply])

\* DiscordBot.process_message.  A message is a record: kind "replace" matches
\* constants.REPLACE, kind "command" matches constants.COMMAND, kind "text" is
\* neither.
process_message(s, t, user, msg, fault) ==
    CASE msg.kind = "replace" -> handle_replacement(s, user, msg.args[1], fault)
      [] msg.kind = "command" -> handle_command(s, t, user, msg.args, msg.reply, fault)
      [] OTHER -> s

\* on_message without its blacklist gate.
on_message_ungated(s, t, user, msg, fault) == process_message(s, t, user, msg, fault)

\* on_message: a blacklisted author is answered, when the text starts with
\* ";;", and goes no further.
on_message(s, t, user, msg, fault) ==
    IF is_blacklisted(s, user)
    THEN Done(s, [ctx |-> [cmd |-> "blacklisted", author |-> user, args |-> msg.args],
                  call |-> NoCall, raw |-> Result("None", ""), result |-> Result("None", ""),
                  reply |-> IF msg.kind \in {"replace", "command"}
                            THEN "You are blacklisted from using this bot." ELSE NoReply])
    ELSE process_message(s, t, user, msg, fault)

\* Messages.
Command(args) == [kind |-> "command", args |-> args, reply |-> None]
Replace(key) == [kind |-> "replace", args |-> <<key>>, reply |-> None]
\* A command sent as a reply to a message whose text, stripped and with its
\* attachments' text appended, is reply.
CommandReply(args, reply) == [kind |-> "command", args |-> args, reply |-> reply]

\* ------------------------------------------------------------------ actions

Init ==
    /\ now = 0
    /\ db = EmptyDict
    /\ blacklist = <<>>
    /\ command_cooldowns = <<>>
    /\ last_backup = 0
    /\ files = <<>>
    /\ loop = Idle
    /\ threads = [t \in Threads |-> Free]
    /\ prev = [ctx |-> Direct, call |-> NoCall, raw |-> Result("None", ""),
               result |-> Result("None", ""), reply |-> NoReply]
    /\ ret = [ctx |-> Direct, call |-> NoCall, raw |-> Result("None", ""),
              result |-> Result("None", ""), reply |-> NoReply]

\* The store methods called directly, as a handler calls them.
CallStoreText(user, key, value, overwrite, fail) ==
    /\ loop = Idle
    /\ Becomes(store_text_read(St, Direct, user, key, value, overwrite, fail))

CallDeleteKey(user, key, fail) ==
    /\ loop = Idle
    /\ Becomes(delete_key_read(St, Direct, user, key, fail))

CallSteal(t, user, key, from, new_key) ==
    /\ loop = Idle
    /\ threads[t] = Free
    /\ Becomes(steal_start(St, t, Direct, user, key, from, new_key))

CallRetrieveText(user, key, fail) ==
    /\ loop = Idle
    /\ Becomes(Finish(St, Direct, [op |-> "retrieve_text", user |-> user, key |-> key],
                      retrieve_text(St, user, key, fail)))

CallGetUserKeys(user, fail) ==
    /\ loop = Idle
    /\ Becomes(Finish(St, Direct, [op |-> "get_user_keys", user |-> user],
                      get_user_keys(St, user, fail)))

\* The event loop goes on with the store method it is in: its write.
LoopStep(fail) ==
    /\ loop.pc \in {"store_text", "delete_key"}
    /\ Becomes(CASE loop.pc = "store_text" -> store_text_write(St, fail)
                 [] loop.pc = "delete_key" -> delete_key_write(St, fail))

\* A worker thread takes its next step.
ThreadStep(t, fail) ==
    /\ threads[t].pc \in {"source", "own", "write"}
    /\ Becomes(steal_step(St, t, fail))

\* The event loop resumes the coroutine awaiting thread t.
StealReturn(t) ==
    /\ loop = Idle
    /\ threads[t].pc = "done"
    /\ Becomes(steal_return(St, t))

\* The event loop goes on with create_backup: the copy of key, which the
\* iteration over the store's keys has reached, or the close after the last.
BackupStep(key, fault) ==
    /\ loop.pc = "create_backup"
    /\ IF loop.keys = {} THEN key = 0 ELSE key \in loop.keys
    /\ Becomes(create_backup_copy(St, key, fault))

\* The message is a steal command, which occupies a worker thread.
IsSteal(msg) == msg.kind = "command" /\ msg.args # <<>> /\ msg.args[1] = "steal"
\* The message is one whose handling reads or writes storage, and so may meet a
\* storage fault.
UsesStorage(msg) ==
    \/ msg.kind = "replace"
    \/ msg.kind = "command" /\ msg.args # <<>>
       /\ msg.args[1] \in {"add", "add_o", "delete", "delete_me", "rename", "rename_o",
                           "backup"}

\* The transport delivers a message of user to on_message; t is the worker
\* thread a steal gets when its handler reaches to_thread, a free one; fault is
\* the storage fault the handling meets.
OnMessage(t, user, msg, fault) ==
    /\ loop = Idle
    /\ IF IsSteal(msg)
       THEN on_message(St, t, user, msg, fault).threads[t] # threads[t] => threads[t] = Free
       ELSE t = 1
    /\ fault = "io" => UsesStorage(msg)
    /\ fault = "mkdir" => (msg.kind = "command" /\ msg.args = <<"backup">>)
    /\ Becomes(on_message(St, t, user, msg, fault))

\* The scheduler runs _periodic_backup.
PeriodicBackup(fault) ==
    /\ loop = Idle
    /\ Becomes(periodic_backup(St, fault))

\* Time passes: a second, or a day.
Tick(d) ==
    /\ d = 1 => (now % backup_interval) < MaxSec
    /\ d = backup_interval => now + d <= MaxDays * backup_interval + MaxSec
    /\ now' = now + d
    /\ UNCHANGED <<db, blacklist, command_cooldowns, last_backup, files, loop, threads, prev, ret>>

Faults == {"none", "io", "mkdir"}

\* The direct calls of the store specification: user 1 stores, overwrites and
\* deletes key "a" and steals user 3's "a" (as "a" or as "b"); user 3 stores "a".
StoreTextCalls ==
    {<<1, "a", v, o>> : v \in Values, o \in BOOLEAN} \cup {<<3, "a", "v", FALSE>>}
DeleteKeyCalls == {<<1, "a">>, <<1, "b">>}
StealCalls == {<<1, "a", 3, None>>, <<1, "a", 3, "b">>}

NextStore ==
    \/ \E c \in StoreTextCalls, f \in BOOLEAN : CallStoreText(c[1], c[2], c[3], c[4], f)
    \/ \E c \in DeleteKeyCalls, f \in BOOLEAN : CallDeleteKey(c[1], c[2], f)
    \/ \E t \in {1}, c \in StealCalls : CallSteal(t, c[1], c[2], c[3], c[4])
    \/ \E f \in BOOLEAN : LoopStep(f)
    \/ \E t \in {1}, f \in BOOLEAN : ThreadStep(t, f)
    \/ \E t \in {1} : StealReturn(t)

SpecStore == Init /\ [][NextStore]_vars

\* The reading specification: user 1 stores, overwrites, deletes, reads and
\* lists, and user 3 stores and deletes, on storage that may fail at any access.
NextRead ==
    \/ \E k \in Keys, v \in Values, o \in BOOLEAN, f \in BOOLEAN :
          CallStoreText(1, k, v, o, f)
    \/ CallStoreText(3, "a", "w", FALSE, FALSE)
    \/ \E u \in {1, 3}, k \in Keys, f \in BOOLEAN : CallDeleteKey(u, k, f)
    \/ \E k \in Keys, f \in BOOLEAN : CallRetrieveText(1, k, f)
    \/ \E f \in BOOLEAN : CallGetUserKeys(1, f)
    \/ \E f \in BOOLEAN : LoopStep(f)

SpecRead == Init /\ [][NextRead]_vars

\* The messages of the steal specification: user 1 steals user 3's key "a",
\* under its name or as "b", and user 3 adds it.
StealInbox ==
    {<<1, Command(<<"steal", Mention[3], "a">>)>>,
     <<1, Command(<<"steal", Mention[3], "a", "b">>)>>,
     <<3, Command(<<"add", "a", "v">>)>>}

NextSteal ==
    \/ \E t \in Threads, m \in StealInbox : OnMessage(t, m[1], m[2], "none")
    \/ LoopStep(FALSE)
    \/ \E t \in Threads : ThreadStep(t, FALSE)
    \/ \E t \in Threads : StealReturn(t)
    \/ Tick(1)

SpecSteal == Init /\ [][NextSteal]_vars

\* The messages of the end-to-end specification: ";;add greeting hello world",
\* ";;greeting" and ";;delete greeting" of users 2 and 3, and admin 1's
\* blacklisting of user 3.
AddGreeting == Command(<<"add", "greeting", "hello", "world">>)
GreetingInbox ==
    {<<u, m>> : u \in {2, 3},
                m \in {AddGreeting, Replace("greeting"),
                       Command(<<"delete", "greeting">>)}}
    \cup {<<1, Command(<<"blacklist_add", Mention[3]>>)>>}

NextGreeting ==
    \/ \E m \in GreetingInbox : OnMessage(1, m[1], m[2], "none")
    \/ LoopStep(FALSE)
    \/ Tick(1)

SpecGreeting == Init /\ [][NextGreeting]_vars

\* The messages of the add specification: user 3's add and add_o with no key,
\* with a key only (alone, or as a reply to an empty or a non-empty message)
\* and with a key and a value.
AddInbox ==
    {<<3, CommandReply(<<c>> \o a, r)>> :
        c \in {"add", "add_o"}, a \in {<<>>, <<"a">>}, r \in {None, "", "r"}}
    \cup {<<3, Command(<<c, "a", "v">>)>> : c \in {"add", "add_o"}}

NextAdd ==
    \/ \E m \in AddInbox, f \in {"none", "io"} : OnMessage(1, m[1], m[2], f)
    \/ \E f \in BOOLEAN : LoopStep(f)
    \/ Tick(1)

SpecAdd == Init /\ [][NextAdd]_vars

\* The messages of the results specification: commands of user 3 whose
\* handlers succeed, fail, reject their arguments, refuse permission, and raise.
ResultInbox ==
    {<<3, Command(<<"add", "a", "v">>)>>,
     <<3, Command(<<"add">>)>>,
     <<3, Command(<<"backup">>)>>,
     <<3, Command(<<"delete_me">>)>>,
     <<3, Command(<<"rename", "a", "b">>)>>}

NextResults ==
    \/ \E m \in ResultInbox, f \in {"none", "io"} : OnMessage(1, m[1], m[2], f)
    \/ \E f \in BOOLEAN : LoopStep(f)
    \/ Tick(1)

SpecResults == Init /\ [][NextResults]_vars

\* The messages of the routing specification: user 3 sends two texts whose
\* first token is no registered command, one of them the name of a key; adds a
\* value, asks for help, and asks for the values of keys "a" and "b"; user 2
\* asks for the value of "a"; admin 1 blacklists user 3 and admin 2 takes it
\* off again.
DispatchInbox ==
    {<<3, Command(<<"frobnicate">>)>>,
     <<3, Command(<<"a", "v">>)>>,
     <<3, Command(<<"add", "a", "v">>)>>,
     <<3, Command(<<"help">>)>>,
     <<3, Replace("a")>>,
     <<3, Replace("b")>>,
     <<2, Replace("a")>>,
     <<1, Command(<<"blacklist_add", Mention[3]>>)>>,
     <<2, Command(<<"blacklist_remove", Mention[3]>>)>>}

NextDispatch ==
    \/ \E m \in DispatchInbox, f \in {"none", "io"} : OnMessage(1, m[1], m[2], f)
    \/ \E f \in BOOLEAN : LoopStep(f)
    \/ Tick(1)

SpecDispatch == Init /\ [][NextDispatch]_vars

\* The messages of the dispatcher specification: user 3 adds a value, asks for
\* it and for help; admin 1 blacklists user 3 and admin 2 takes it off again.
Inbox ==
    {<<3, Command(<<"add", "a", "v">>)>>,
     <<3, Command(<<"help">>)>>,
     <<3, Replace("a")>>,
     <<1, Command(<<"blacklist_add", Mention[3]>>)>>,
     <<2, Command(<<"blacklist_remove", Mention[3]>>)>>}

Next ==
    \/ \E t \in {1}, m \in Inbox, f \in {"none", "io"} : OnMessage(t, m[1], m[2], f)
    \/ \E f \in BOOLEAN : LoopStep(f)
    \/ Tick(1)

Spec == Init /\ [][Next]_vars

\* The messages of the permission specification: the admin commands, of admins
\* 1 and 2 and of user 3, who is no admin.
AdminInbox ==
    {<<1, Command(<<"blacklist_add", Mention[3]>>)>>,
     <<1, Command(<<"blacklist_add", Mention[2]>>)>>,
     <<2, Command(<<"blacklist_remove", Mention[3]>>)>>,
     <<3, Command(<<"blacklist_add", Mention[1]>>)>>,
     <<3, Command(<<"blacklist_remove", Mention[3]>>)>>,
     <<3, Command(<<"backup">>)>>}

NextAdmin ==
    \/ \E t \in {1}, m \in AdminInbox : OnMessage(t, m[1], m[2], "none")
    \/ Tick(1)

SpecAdmin == Init /\ [][NextAdmin]_vars

\* The messages of the two specifications.
Messages == Inbox \cup AdminInbox

\* The backup specification: the admins' backup commands, with storage faults,
\* while user 1 stores a value and copies it to a second key with a steal from
\* its own record, which runs in its thread.
NextBackup ==
    \/ \E u \in ADMINS, f \in {"none", "io"} : OnMessage(1, u, Command(<<"backup">>), f)
    \/ \E k \in Users \cup {0}, f \in {"none", "io"} : BackupStep(k, f)
    \/ CallStoreText(1, "a", "v", FALSE, FALSE)
    \/ LoopStep(FALSE)
    \/ \E t \in {1} : CallSteal(t, 1, "a", 1, "b")
    \/ \E t \in {1} : ThreadStep(t, FALSE)
    \/ \E t \in {1} : StealReturn(t)
    \/ Tick(1)

SpecBackup == Init /\ [][NextBackup]_vars

\* The scheduler specification: _periodic_backup run at any time, with storage
\* faults, while user 1 stores a value.
NextPeriodic ==
    \/ \E f \in Faults : PeriodicBackup(f)
    \/ \E k \in Users \cup {0}, f \in {"none", "io"} : BackupStep(k, f)
    \/ CallStoreText(1, "a", "v", FALSE, FALSE)
    \/ LoopStep(FALSE)
    \/ \E d \in {1, backup_interval} : Tick(d)

SpecPeriodic == Init /\ [][NextPeriodic]_vars

\* ------------------------------------------------------------------- claims

\* r is a direct call of store_text / delete_key that has returned or raised.
IsStoreText(r) == r.ctx = Direct /\ r.call.op = "store_text"

\* C1: when store_text(U, K, v, overwrite=False) has succeeded and the next
\* operation on the store is store_text(U, K, v2, overwrite=False), that call
\* never succeeds: it returns the FAILURE result KEY_EXISTS_ADD (or, when the
\* storage access itself fails, raises DatabaseError), and the value stored at
\* (U, K) is still v.
C1_SecondAddRejected ==
    (/\ IsStoreText(prev) /\ ~prev.call.overwrite /\ prev.result.status = "SUCCESS"
     /\ IsStoreText(ret) /\ ~ret.call.overwrite
     /\ ret.call.user = prev.call.user /\ ret.call.key = prev.call.key)
    => /\ ret.result \in {Result("FAILURE", KEY_EXISTS_ADD), Raised("DatabaseError")}
       /\ prev.call.key \in DOMAIN Get(db, prev.call.user)
       /\ Get(db, prev.call.user)[prev.call.key] = prev.call.value

\* C1's case: a second add without overwrite, of another value, was rejected with
\* KEY_EXISTS_ADD right after the first one succeeded.
C1_Witness ==
    /\ IsStoreText(prev) /\ ~prev.call.overwrite /\ prev.result.status = "SUCCESS"
    /\ IsStoreText(ret) /\ ~ret.call.overwrite
    /\ ret.call.user = prev.call.user /\ ret.call.key = prev.call.key
    /\ ret.call.value # prev.call.value
    /\ ret.result = Result("FAILURE", KEY_EXISTS_ADD)

\* The user's record after operation call is applied to record rec; a steal
\* sets its target key to the value it stole, the one the record has after it.
Applied(call, rec, after) ==
    CASE call.op = "store_text" -> Put(rec, call.key, call.value)
      [] call.op = "delete_key" -> Del(rec, call.key)
      [] call.op = "steal" -> Put(rec, TargetKey(call), after[TargetKey(call)])

\* C2: mutations of one user's record are serialized, so that no update is
\* lost: every write of an add, a delete or a steal leaves the user's record as
\* the operation applied to the record as it stands at the write, whatever ran
\* between the operation's read and its write.
C2_NoLostUpdate ==
    [][db' # db =>
          LET c == ret'.call
          IN  db' = Put(db, c.user,
                        Applied(c, Get(db, c.user), Get(db', c.user)))]_vars

\* The context of the message that this step completes, hands to a worker
\* thread or leaves the event loop in the middle of.
Taken(t) ==
    IF threads[t] = Free /\ threads'[t] # Free THEN threads'[t].ctx
    ELSE IF loop' # Idle THEN loop'.ctx ELSE ret'.ctx

\* A message m of user u arrives in this step: the step is on_message's for it.
\* (The first three conjuncts follow from the last and are there to spare its
\* evaluation.)
Arrives(u, m) ==
    \E t \in Threads :
        /\ loop = Idle /\ now' = now
        /\ "author" \in DOMAIN Taken(t)
        /\ Taken(t).author = u /\ Taken(t).args = m.args
        /\ \E f \in {"none", "io"} : OnMessage(t, u, m, f)
\* Command c of user u is on cooldown now.
OnCooldown(u, c) ==
    /\ <<c, u>> \in DOMAIN command_cooldowns
    /\ now - command_cooldowns[<<c, u>>] < COMMAND_COOLDOWN
\* What a message that does not reach its handler's body leaves alone.
HandlerNotRun ==
    /\ UNCHANGED <<db, blacklist, files, threads, last_backup>>
    /\ loop' = Idle
    /\ ret'.call = NoCall

\* C3: a registered command of user U that arrives less than COMMAND_COOLDOWN
\* after U's last accepted invocation of it results in COOLDOWN, its handler is
\* not run and the recorded time stays; one that arrives at or after the
\* interval (or is U's first) is processed: its time is recorded and its result
\* is not COOLDOWN.  The recorded time changes in no other way.
C3_Cooldown ==
    [][/\ \A m \in Messages :
             (m[2].kind = "command" /\ ~is_blacklisted(St, m[1]) /\ Arrives(m[1], m[2])) =>
                IF OnCooldown(m[1], m[2].args[1])
                THEN /\ ret'.ctx.author = m[1] /\ ret'.ctx.args = m[2].args
                     /\ ret'.result.status = "COOLDOWN"
                     /\ HandlerNotRun
                     /\ command_cooldowns' = command_cooldowns
                ELSE /\ command_cooldowns' =
                            Put(command_cooldowns, <<m[2].args[1], m[1]>>, now)
                     /\ loop' = Idle =>
                            (ret'.ctx.author = m[1] /\ ret'.ctx.args = m[2].args
                             /\ ret'.result.status # "COOLDOWN")
       /\ command_cooldowns' # command_cooldowns =>
             \E e \in Commands \X Users :
                 /\ ~OnCooldown(e[2], e[1])
                 /\ command_cooldowns' = Put(command_cooldowns, e, now)]_vars

\* C3's case: a command was rejected with COOLDOWN one second after its last
\* accepted invocation.
C3_Witness ==
    /\ ret.result.status = "COOLDOWN"
    /\ <<ret.ctx.cmd, ret.ctx.author>> \in DOMAIN command_cooldowns
    /\ now - command_cooldowns[<<ret.ctx.cmd, ret.ctx.author>>] = 1

\* C4: while user U is in the blacklist, a message of U goes no further than
\* on_message: handle_command is not entered, so no cooldown entry is created
\* or updated, and the store, the blacklist and the backups are unchanged.
C4_BlacklistGate ==
    [][\A m \in Messages :
          (is_blacklisted(St, m[1]) /\ Arrives(m[1], m[2])) =>
             /\ ret'.ctx.cmd = "blacklisted" /\ ret'.ctx.author = m[1]
             /\ HandlerNotRun
             /\ command_cooldowns' = command_cooldowns]_vars

\* C4's case: an add of a blacklisted user was turned away, and the store has
\* nothing of that user.
C4_Witness ==
    /\ ret.ctx.cmd = "blacklisted"
    /\ ret.ctx.args = <<"add", "a", "v">>
    /\ is_blacklisted(St, ret.ctx.author)
    /\ ret.ctx.author \notin DOMAIN db

\* C5: no user identifier is in the admin set and in the blacklist.
C5_AdminsNotBlacklisted == \A u \in Users : ~(is_admin(u) /\ is_blacklisted(St, u))

\* C5's case: an admin's blacklist_add naming an admin has been handled, and
\* the blacklist holds a user.
C5_Witness ==
    /\ ret.ctx.cmd = "blacklist_add"
    /\ ret.ctx.args = <<"blacklist_add", Mention[2]>>
    /\ ret.result.status = "FAILURE"
    /\ blacklist = <<3>>

\* C6: blacklist_add of an admin naming an admin leaves the blacklist as it
\* was, and its handler, which runs unless the cooldown gate rejects the command
\* first, returns the FAILURE result "You cannot blacklist another admin."
C6_AdminNotBlacklistable ==
    [][\A m \in Messages :
          (/\ is_admin(m[1]) /\ m[2].kind = "command"
           /\ Len(m[2].args) = 2 /\ m[2].args[1] = "blacklist_add"
           /\ \E a \in ADMINS : m[2].args[2] = Mention[a]
           /\ Arrives(m[1], m[2])) =>
             /\ blacklist' = blacklist
             /\ ret'.ctx.author = m[1] /\ ret'.ctx.args = m[2].args
             /\ ret'.result =
                   IF OnCooldown(m[1], "blacklist_add")
                   THEN Result("COOLDOWN", "Command blacklist_add is on cooldown. Please wait.")
                   ELSE Result("FAILURE", "You cannot blacklist another admin.")]_vars

\* C6's case: admin 1's blacklist_add of admin 2 failed while user 3, added
\* before, is the blacklist.
C6_Witness ==
    /\ ret.ctx.cmd = "blacklist_add"
    /\ ret.ctx.author = 1
    /\ ret.ctx.args = <<"blacklist_add", Mention[2]>>
    /\ ret.result = Result("FAILURE", "You cannot blacklist another admin.")
    /\ blacklist = <<3>>
    /\ now > 0

\* The commands wrapped in Permission.requires_admin.
AdminCommands == {"blacklist_add", "blacklist_remove", "backup"}

\* C7: an admin-only command of a non-admin never runs its handler body: the
\* blacklist is unchanged and no backup is begun; and when the command reaches
\* its handler (the author is not blacklisted and the command not on cooldown,
\* the two gates before it), the result is NO_PERMISSION.
C7_AdminOnly ==
    [][\A m \in Messages :
          (/\ ~is_admin(m[1]) /\ m[2].kind = "command" /\ m[2].args[1] \in AdminCommands
           /\ Arrives(m[1], m[2])) =>
             /\ HandlerNotRun
             /\ (~is_blacklisted(St, m[1]) /\ ~OnCooldown(m[1], m[2].args[1])) =>
                   (/\ ret'.ctx.author = m[1] /\ ret'.ctx.args = m[2].args
                    /\ ret'.result = NoPermission)]_vars

\* C7's case: user 3, no admin, was refused a backup, and no backup file exists.
C7_Witness ==
    /\ ret.ctx.cmd = "backup"
    /\ ret.ctx.author = 3
    /\ ret.result = NoPermission
    /\ files = <<>>

\* create_backup returns in this step.
BackupReturns == ret' # ret /\ ret'.call.op = "create_backup"

\* C8: a create_backup that does not succeed returns False, leaves no file of
\* its own and leaves the backups directory as it found it: no snapshot of an
\* earlier successful backup is deleted or altered.
C8_FailedBackupLeavesSnapshots ==
    [][(BackupReturns /\ ret'.raw.status # "True") =>
          /\ ret'.raw.status = "False"
          /\ files' = ret'.call.before]_vars

\* C9: when create_backup returns True, the file it wrote holds exactly the
\* (user, key, value) triples the store had when create_backup was called.
C9_SnapshotIsStoreAtCall ==
    [][(BackupReturns /\ ret'.raw.status = "True") =>
          Triples(Get(files', ret'.call.path)) = Triples(ret'.call.store)]_vars

\* C10: _periodic_backup calls create_backup exactly when the time since
\* last_backup is at least backup_interval, and when it has returned last_backup
\* is the time of the step if create_backup returned True and is unchanged
\* otherwise.
C10_PeriodicBackup ==
    ret.ctx.cmd = "periodic" =>
        /\ (ret.call.op = "create_backup") <=>
               (ret.ctx.current_time - ret.ctx.last_backup >= backup_interval)
        /\ loop = Idle =>
               last_backup = IF ret.raw.status = "True" THEN ret.ctx.current_time
                             ELSE ret.ctx.last_backup

\* C11: a store operation that met a storage failure does not return what it
\* returns for an absent key: retrieve_text does not return None, get_user_keys
\* does not return the empty list and delete_key does not return False.
C11_StorageErrorDistinct ==
    (/\ ret.ctx = Direct
     /\ ret.call.op \in {"retrieve_text", "get_user_keys", "delete_key"}
     /\ ret.raw.message = "storage error")
    => ret.raw.status \notin {"None", "[]", "False"}

\* An invocation of command c by user u is in flight in thread t: its handler
\* awaits the thread.  It passed the cooldown gate when it arrived.
InFlight(t, u, c) ==
    /\ threads[t].pc # "free"
    /\ "author" \in DOMAIN threads[t].ctx
    /\ threads[t].ctx.author = u /\ threads[t].ctx.cmd = c

\* C12: the cooldown check and record is one atomic step: a command of user U
\* that arrives while an invocation of the same command by U, accepted less
\* than COMMAND_COOLDOWN before, is still in flight, does not pass the gate: its
\* result is COOLDOWN and no second thread is started.
C12_CooldownAtomic ==
    [][\A m \in StealInbox :
          (/\ Arrives(m[1], m[2])
           /\ \E t \in Threads :
                 /\ InFlight(t, m[1], m[2].args[1])
                 /\ now - threads[t].ctx.at < COMMAND_COOLDOWN) =>
             /\ threads' = threads
             /\ ret'.ctx.cmd = m[2].args[1]
             /\ ret'.ctx.author = m[1] /\ ret'.ctx.args = m[2].args
             /\ ret'.result.status = "COOLDOWN"]_vars

\* C12's case: a steal of user 1 was rejected with COOLDOWN while an earlier
\* steal of user 1, accepted within the interval, is in flight.
C12_Witness ==
    /\ ret.ctx.cmd = "steal" /\ ret.ctx.author = 1
    /\ ret.result.status = "COOLDOWN"
    /\ \E t \in Threads :
          /\ InFlight(t, 1, "steal")
          /\ threads[t].pc # "done"
          /\ now - threads[t].ctx.at < COMMAND_COOLDOWN

\* C13: ";;add greeting hello world" of a user who is not blacklisted and has
\* no state yet (no record, no cooldown entry) reaches store_text, which
\* succeeds and leaves "hello world" at (user, "greeting"); and ";;greeting" of
\* that user, the next message handled after the add, is answered with one
\* reply, "hello world".
C13_AddThenReplace ==
    [][\A u \in {2, 3} :
          /\ (/\ Arrives(u, AddGreeting) /\ ~is_blacklisted(St, u)
              /\ u \notin DOMAIN db /\ <<"add", u>> \notin DOMAIN command_cooldowns)
             => (loop'.pc = "store_text" /\ loop'.ctx.author = u)
          /\ (/\ loop.pc = "store_text" /\ loop.ctx.author = u
              /\ loop.ctx.args = AddGreeting.args /\ loop' = Idle)
             => /\ ret'.result.status = "SUCCESS"
                /\ "greeting" \in DOMAIN Get(db', u)
                /\ Get(db', u)["greeting"] = "hello world"
          /\ (/\ Arrives(u, Replace("greeting")) /\ ~is_blacklisted(St, u)
              /\ ret.ctx.cmd = "add" /\ ret.ctx.author = u
              /\ ret.ctx.args = AddGreeting.args /\ ret.result.status = "SUCCESS")
             => ret'.reply = "hello world"]_vars

\* C13's case: user 3's ";;greeting" was answered with "hello world".
C13_Witness ==
    /\ ret.ctx.cmd = "replace" /\ ret.ctx.author = 3
    /\ ret.ctx.args = <<"greeting">>
    /\ ret.reply = "hello world"

\* C14: delete_key(U, K) when U has no key K returns False and leaves the whole
\* store unchanged, at every repetition; delete_key returns True only when the
\* key existed, and then the store differs in exactly that key of U; a delete
\* that returns False changes nothing.
C14_DeleteKey ==
    [][\A u \in {1, 3}, k \in Keys :
          /\ ((\E f \in BOOLEAN : CallDeleteKey(u, k, f)) /\ k \notin DOMAIN Get(db, u))
             => (loop' = Idle /\ ret'.raw.status = "False" /\ db' = db)
          /\ ((\E f \in BOOLEAN : CallDeleteKey(u, k, f)) /\ loop' = Idle)
             => (ret'.raw.status = "False" /\ db' = db)
          /\ (/\ loop.pc = "delete_key" /\ loop.call.user = u /\ loop.call.key = k
              /\ loop' = Idle)
             => IF ret'.raw.status = "True"
                THEN /\ k \in DOMAIN Get(db, u)
                     /\ db' = Put(db, u, Del(Get(db, u), k))
                ELSE db' = db]_vars

\* C14's case: delete_key of a key the user does not have returned False twice
\* in a row, with other keys in the store; the store is as it was.
C14_Witness ==
    /\ prev.ctx = Direct /\ prev.call.op = "delete_key"
    /\ ret.ctx = Direct /\ ret.call = prev.call
    /\ prev.raw = Result("False", "absent") /\ ret.raw = Result("False", "absent")
    /\ ret.call.user = 1 /\ ret.call.key = "b"
    /\ "a" \in DOMAIN Get(db, 1) /\ "a" \in DOMAIN Get(db, 3)

\* Thread t takes a step of a steal command without target key: "steal <@B> k"
\* of user A.
StealStep(t) ==
    /\ threads[t].pc \in {"source", "own", "write"}
    /\ threads'[t] # threads[t]
    /\ "author" \in DOMAIN threads[t].ctx
    /\ Len(threads[t].ctx.args) = 3

\* C15: "steal <@B> k" of user A, with no target key.  No step of it changes
\* B's record.  When B has no key k the steal ends at once with False, the store
\* as it was, and the command's result is the FAILURE KEY_NOT_FOUND; when B has
\* k = v the steal's write leaves k = v in A's record, and the command's result
\* is SUCCESS.  Only the write changes the store.
C15_StealFrame ==
    [][\A t \in Threads :
          /\ StealStep(t) =>
                LET A == threads[t].ctx.author
                    B == MentionId(threads[t].ctx.args[2])
                    k == threads[t].ctx.args[3]
                IN  /\ Get(db', B) = Get(db, B)
                    /\ threads[t].pc # "write" => db' = db
                    /\ threads[t].pc = "source" =>
                          IF k \in DOMAIN Get(db, B)
                          THEN threads'[t].pc = "own"
                          ELSE threads'[t].pc = "done" /\ threads'[t].raw.status = "False"
                    /\ threads[t].pc = "write" =>
                          /\ threads'[t].raw.status = "True"
                          /\ k \in DOMAIN Get(db', A)
                          /\ k \in DOMAIN Get(db, B)
                          /\ Get(db', A)[k] = Get(db, B)[k]
          /\ (threads[t].pc = "done" /\ threads'[t] = Free
              /\ "author" \in DOMAIN threads[t].ctx /\ Len(threads[t].ctx.args) = 3) =>
                /\ db' = db
                /\ ret'.result = IF threads[t].raw.status = "True"
                                 THEN Result("SUCCESS", SUCCESSFUL)
                                 ELSE Result("FAILURE", KEY_NOT_FOUND)]_vars

\* C15's case: user 1's "steal <@3> a" succeeded, and users 1 and 3 both have
\* a = v.
C15_Witness ==
    /\ ret.ctx.cmd = "steal" /\ ret.ctx.author = 1
    /\ ret.ctx.args = <<"steal", Mention[3], "a">>
    /\ ret.result = Result("SUCCESS", SUCCESSFUL)
    /\ Get(db, 1) = [a |-> "v"]
    /\ Get(db, 3) = [a |-> "v"]

\* An add or add_o message that brings a key and no value: no words after the
\* key, and no replied-to message or one that is empty.
NoValue(m) ==
    /\ m.kind = "command" /\ m.args[1] \in {"add", "add_o"}
    /\ Len(m.args) = 2 /\ m.reply \in {None, ""}

\* C16 as stated: an add without a value is rejected with a FAILURE result and
\* leaves the store unchanged.
C16_EmptyValueIsFailure ==
    [][\A m \in AddInbox :
          (/\ NoValue(m[2]) /\ Arrives(m[1], m[2])
           /\ ~OnCooldown(m[1], m[2].args[1])) =>
             (db' = db /\ loop' = Idle /\ ret'.result.status = "FAILURE")]_vars

\* C16, amended: an add or add_o without a value never reaches store_text and
\* leaves the store unchanged: with no replied-to message the result is
\* INVALID_ARGS; with a replied-to message that is empty it is the FAILURE
\* EMPTY_MESSAGE.  No add or add_o ever leaves an empty value in the
\* store.
C16_EmptyValueRejected ==
    [][/\ \A m \in AddInbox :
             (/\ NoValue(m[2]) /\ Arrives(m[1], m[2])
              /\ ~OnCooldown(m[1], m[2].args[1])) =>
                /\ db' = db /\ loop' = Idle
                /\ ret'.call = NoCall
                /\ ret'.result =
                      IF m[2].reply = None
                      THEN Result("INVALID_ARGS", "WRONG_ARGS_ADD")
                      ELSE Result("FAILURE", "EMPTY_MESSAGE")
       /\ \A u \in DOMAIN db' : \A k \in DOMAIN db'[u] : db'[u][k] # ""]_vars

\* C16's case: an add replying to an empty message was rejected with
\* EMPTY_MESSAGE while the store has a value.
C16_Witness ==
    /\ ret.ctx.cmd = "add"
    /\ ret.ctx.args = <<"add", "a">>
    /\ ret.result = Result("FAILURE", "EMPTY_MESSAGE")
    /\ Get(db, 3) = [a |-> "v"]

\* C17: store_text with overwrite=True never returns a FAILURE: it succeeds
\* unless the storage access fails, and its write changes the store in the
\* key it sets and in nothing else.  After store_text(U, K, v, True) succeeded
\* and store_text(U, K, v2, True), the next call, returned, that one succeeded
\* too and retrieve_text(U, K) returns v2.
C17_OverwriteTwice ==
    [][/\ (/\ loop.pc = "store_text" /\ loop.ctx = Direct /\ loop.call.overwrite
           /\ loop' = Idle) =>
             /\ ret'.result \in {Result("SUCCESS", SUCCESSFUL), Raised("DatabaseError")}
             /\ db' = IF ret'.result.status = "SUCCESS"
                      THEN Put(db, loop.call.user,
                               Put(Get(db, loop.call.user), loop.call.key, loop.call.value))
                      ELSE db
       /\ (/\ IsStoreText(prev') /\ prev'.call.overwrite /\ prev'.result.status = "SUCCESS"
           /\ IsStoreText(ret') /\ ret'.call.overwrite
           /\ ret'.call.user = prev'.call.user /\ ret'.call.key = prev'.call.key
           /\ ret'.raw.status # "raise") =>
             /\ ret'.result = Result("SUCCESS", SUCCESSFUL)
             /\ retrieve_text([db |-> db'], ret'.call.user, ret'.call.key, FALSE)
                   = Result("value", ret'.call.value)]_vars

\* C17's case: two overwriting store_text calls of user 1 for key "a", with "v"
\* and then "w", both succeeded; key "b" and user 3's record are in the store.
C17_Witness ==
    /\ IsStoreText(prev) /\ prev.call.overwrite /\ prev.result.status = "SUCCESS"
    /\ IsStoreText(ret) /\ ret.call.overwrite /\ ret.result.status = "SUCCESS"
    /\ prev.call.user = 1 /\ ret.call.user = 1
    /\ prev.call.key = "a" /\ ret.call.key = "a"
    /\ prev.call.value = "v" /\ ret.call.value = "w"
    /\ Get(db, 1) = [a |-> "w", b |-> "v"]
    /\ Get(db, 3) = [a |-> "w"]

\* C18: the snapshot file of a backup that succeeded is never mutated: whatever
\* happens after create_backup returned True, a later backup included, the file
\* stays and keeps its content.
C18_SnapshotImmutable ==
    [][(ret.call.op = "create_backup" /\ ret.raw.status = "True") =>
          /\ ret.call.path \in DOMAIN files'
          /\ files'[ret.call.path] = files[ret.call.path]]_vars

\* C19: the time of an accepted invocation is recorded by the step in which the
\* command arrives, before its handler runs, and no step of the handler changes
\* it; so when the invocation is over, whatever its result (SUCCESS, FAILURE,
\* INVALID_ARGS, NO_PERMISSION, or the FAILURE made of an exception), the
\* cooldown entry of (command, user) is at least the time it arrived at.
C19_AttemptCounts ==
    [][/\ \A m \in ResultInbox :
             (Arrives(m[1], m[2]) /\ ~OnCooldown(m[1], m[2].args[1])) =>
                command_cooldowns' = Put(command_cooldowns, <<m[2].args[1], m[1]>>, now)
       /\ loop # Idle => command_cooldowns' = command_cooldowns
       /\ (ret'.ctx.cmd \in Commands /\ ret'.result.status # "COOLDOWN") =>
             /\ <<ret'.ctx.cmd, ret'.ctx.author>> \in DOMAIN command_cooldowns'
             /\ command_cooldowns'[<<ret'.ctx.cmd, ret'.ctx.author>>] >= ret'.ctx.at]_vars

\* C19's case: user 3's delete_me raised, and its time is in the cooldown table.
C19_Witness ==
    /\ ret.ctx.cmd = "delete_me" /\ ret.ctx.author = 3
    /\ ret.raw.status = "raise"
    /\ <<"delete_me", 3>> \in DOMAIN command_cooldowns
    /\ command_cooldowns[<<"delete_me", 3>>] = ret.ctx.at
    /\ now > ret.ctx.at

\* Texts of internal errors.
ErrorTexts == {StorageErrorText, "database is locked"}

\* C20: when a handler raised, the result of the command is a FAILURE whose
\* message is generic: it is the same whatever the text of the error.
C20_GenericFailure ==
    (ret.ctx.cmd \in Commands /\ ret.raw.status = "raise") =>
        /\ ret.result.status = "FAILURE"
        /\ \A e \in ErrorTexts :
              HandlerResult(ret.ctx.cmd, Raised(e)).message = ret.result.message

\* C21: a command text of a user who is not blacklisted whose first token is
\* no registered command results in FAILURE "Unknown command."; no handler is
\* run, and the cooldown table, the store and the blacklist are as before,
\* whether or not the same text arrived within the cooldown interval.
C21_UnknownCommand ==
    [][\A m \in DispatchInbox :
          (/\ m[2].kind = "command" /\ m[2].args[1] \notin Commands
           /\ ~is_blacklisted(St, m[1])
           /\ Arrives(m[1], m[2])) =>
             /\ ret'.ctx.author = m[1] /\ ret'.ctx.args = m[2].args
             /\ ret'.result = Result("FAILURE", "Unknown command.")
             /\ HandlerNotRun
             /\ command_cooldowns' = command_cooldowns
             /\ \A u \in Users : <<m[2].args[1], u>> \notin DOMAIN command_cooldowns']_vars

\* C21's case: user 3, who has a value under "a" and is within the cooldown of
\* help, sent the unknown command "a v": the result is the failure, and there
\* is no cooldown entry of "a".
C21_Witness ==
    /\ ret.ctx.cmd = "a" /\ ret.ctx.author = 3
    /\ ret.result = Result("FAILURE", "Unknown command.")
    /\ 3 \in DOMAIN db /\ "a" \in DOMAIN db[3]
    /\ OnCooldown(3, "help")
    /\ <<"a", 3>> \notin DOMAIN command_cooldowns

\* C22: a replacement trigger of a user who is not blacklisted changes neither
\* the store nor the cooldown table nor the blacklist; when the author has no
\* value under the key nothing is replied, and what is replied is the value the
\* author has under the key, the one reply whenever retrieve_text returned it.
C22_Replacement ==
    [][\A m \in DispatchInbox :
          (/\ m[2].kind = "replace"
           /\ ~is_blacklisted(St, m[1])
           /\ Arrives(m[1], m[2])) =>
             /\ ret'.ctx.cmd = "replace" /\ ret'.ctx.author = m[1]
             /\ UNCHANGED <<db, command_cooldowns, blacklist, files, last_backup, threads>>
             /\ loop' = Idle
             /\ m[2].args[1] \notin DOMAIN Get(db, m[1]) => ret'.reply = NoReply
             /\ ret'.reply # NoReply =>
                   /\ m[2].args[1] \in DOMAIN Get(db, m[1])
                   /\ ret'.reply = Get(db, m[1])[m[2].args[1]]
             /\ ret'.raw.status = "value" => ret'.reply = ret'.raw.message]_vars

\* C22's case: user 2, who has no value under "a", asked for it while user 3
\* has one and user 3 is within the cooldown of add: nothing was replied.
C22_Witness ==
    /\ ret.ctx.cmd = "replace" /\ ret.ctx.author = 2 /\ ret.ctx.args = <<"a">>
    /\ ret.raw = Result("None", "absent")
    /\ ret.reply = NoReply
    /\ 2 \notin DOMAIN db
    /\ 3 \in DOMAIN db /\ "a" \in DOMAIN db[3]
    /\ OnCooldown(3, "add")

\* C23: a registered command of a user who is not blacklisted that arrives
\* while it is on cooldown is answered with nothing: its result is COOLDOWN,
\* no reply is sent, its handler is not run, and the store, the blacklist and
\* the recorded time of the cooldown are as before.  No step that ends in a
\* COOLDOWN result sends a reply.
C23_CooldownSilent ==
    [][/\ \A m \in DispatchInbox :
             (/\ m[2].kind = "command" /\ m[2].args[1] \in Commands
              /\ ~is_blacklisted(St, m[1])
              /\ OnCooldown(m[1], m[2].args[1])
              /\ Arrives(m[1], m[2])) =>
                /\ ret'.ctx.author = m[1] /\ ret'.ctx.args = m[2].args
                /\ ret'.result.status = "COOLDOWN"
                /\ ret'.reply = NoReply
                /\ HandlerNotRun
                /\ command_cooldowns' = command_cooldowns
       /\ (ret' # ret /\ ret'.result.status = "COOLDOWN") =>
             /\ ret'.reply = NoReply
             /\ UNCHANGED <<db, blacklist, command_cooldowns>>]_vars

\* C23's case: user 3's second add within the interval got COOLDOWN and no
\* reply; the recorded time is that of the first one, a second earlier, and
\* the store has the first one's value.
C23_Witness ==
    /\ ret.ctx.cmd = "add" /\ ret.ctx.author = 3
    /\ ret.result.status = "COOLDOWN"
    /\ ret.reply = NoReply
    /\ command_cooldowns[<<"add", 3>>] = ret.ctx.at - 1
    /\ 3 \in DOMAIN db /\ db[3] = [k \in {"a"} |-> "v"]

====
